---- MODULE Spec2Model ----
(***************************************************************************)
(* Model of the study-guide component App (src/unnamed/part_000): the      *)
(* category list, the display-ID map, the filtered question list and the   *)
(* revealed-answers store with its localStorage slot.                      *)
(*                                                                         *)
(* A JavaScript string is a sequence of UTF-16 code units.  A value that   *)
(* is absent (undefined, null) or the empty string -- all falsy -- is <<>>.*)
(***************************************************************************)
EXTENDS Integers, Sequences, FiniteSets, TLC

VARIABLES
    questions,          \* the imported dataset: [questions, declared, categoryOrder]
    searchTerm,         \* useState('')
    selectedCategory,   \* useState('All')
    revealedAnswers,    \* useState(initializer): question id -> option index
    storage,            \* localStorage slot 'dotnet-quiz-progress'
    categories,         \* useMemo(.., [])
    displayIdMap,       \* useMemo(.., [])
    filteredQuestions,  \* useMemo(.., [searchTerm, selectedCategory])
    pc,                 \* "unmounted" | "effect" | "idle" | "crashed"
    event               \* the handler that ran last, with its arguments

vars == <<questions, searchTerm, selectedCategory, revealedAnswers, storage,
          categories, displayIdMap, filteredQuestions, pc, event>>

----------------------------------------------------------------------------
(* Bounds of the model *)

MaxQuestions == 3
MaxViewQuestions == 3
MaxTextQuestions == 2
MaxOrderLen == 2

----------------------------------------------------------------------------
(* String literals of the program and of the datasets, as code units *)

All == <<65, 108, 108>>                  \* 'All'
Other == <<79, 116, 104, 101, 114>>      \* 'Other'
Sync == <<83, 121, 110, 99>>             \* "Sync"
SQL == <<83, 81, 76>>                    \* "SQL"
jQuery == <<106, 81, 117, 101, 114, 121>> \* "jQuery"

----------------------------------------------------------------------------
(* String primitives *)

IsUpper(c) == c \in 65..90
IsLower(c) == c \in 97..122

\* String.prototype.toLowerCase on ASCII text
toLowerCase(s) == [i \in 1..Len(s) |-> IF IsUpper(s[i]) THEN s[i] + 32 ELSE s[i]]

\* String.prototype.indexOf scanning from 1-based position p; -1 when not found
RECURSIVE indexOfFrom(_, _, _)
indexOfFrom(s, t, p) ==
    IF p + Len(t) - 1 > Len(s) THEN -1
    ELSE IF SubSeq(s, p, p + Len(t) - 1) = t THEN p - 1
    ELSE indexOfFrom(s, t, p + 1)

\* String.prototype.includes
includes(s, t) == indexOfFrom(s, t, 1) # -1

\* Array.prototype.includes / indexOf on an array of strings
arrayIncludes(arr, x) == \E i \in 1..Len(arr) : arr[i] = x

RECURSIVE arrayIndexOfFrom(_, _, _)
arrayIndexOfFrom(arr, x, p) ==
    IF p > Len(arr) THEN -1
    ELSE IF arr[p] = x THEN p - 1
    ELSE arrayIndexOfFrom(arr, x, p + 1)

arrayIndexOf(arr, x) == arrayIndexOfFrom(arr, x, 1)

\* The default comparison of Array.prototype.sort(): by UTF-16 code units
RECURSIVE codeUnitLess(_, _)
codeUnitLess(a, b) ==
    IF b = <<>> THEN FALSE
    ELSE IF a = <<>> THEN TRUE
    ELSE IF Head(a) # Head(b) THEN Head(a) < Head(b)
    ELSE codeUnitLess(Tail(a), Tail(b))

\* String.prototype.localeCompare on ASCII letters: letters first compare
\* without case; texts equal without case are told apart by the first
\* position whose case differs, the lower-case letter first.
RECURSIVE caseTieBreak(_, _)
caseTieBreak(a, b) ==
    IF a = <<>> THEN 0
    ELSE IF Head(a) = Head(b) THEN caseTieBreak(Tail(a), Tail(b))
    ELSE IF IsLower(Head(a)) THEN -1 ELSE 1

localeCompare(a, b) ==
    LET la == toLowerCase(a)
        lb == toLowerCase(b)
    IN  IF la = lb THEN caseTieBreak(a, b)
        ELSE IF codeUnitLess(la, lb) THEN -1 ELSE 1

----------------------------------------------------------------------------
(* Sorting.  Array.prototype.sort is stable: an element is placed after     *)
(* every element that does not compare greater than it.                     *)

RECURSIVE insertDefault(_, _)
insertDefault(sorted, x) ==
    IF sorted = <<>> THEN <<x>>
    ELSE LET last == sorted[Len(sorted)]
         IN  IF codeUnitLess(x, last)
             THEN Append(insertDefault(SubSeq(sorted, 1, Len(sorted) - 1), x), last)
             ELSE Append(sorted, x)

\* arr.sort() with no comparator
RECURSIVE sortDefault(_)
sortDefault(arr) ==
    IF arr = <<>> THEN <<>>
    ELSE insertDefault(sortDefault(SubSeq(arr, 1, Len(arr) - 1)), arr[Len(arr)])

\* compareDisplay with the subtraction of the declared indices reversed
compareDisplayReversed(a, b, categoryOrder) ==
    LET catA == a.category
        catB == b.category
        indexA == arrayIndexOf(categoryOrder, catA)
        indexB == arrayIndexOf(categoryOrder, catB)
    IN  IF catA = catB THEN 0
        ELSE IF indexA # -1 /\ indexB # -1 THEN indexB - indexA
        ELSE IF indexA # -1 THEN -1
        ELSE IF indexB # -1 THEN 1
        ELSE localeCompare(catA, catB)

\* the comparator of the display-ID sort
compareDisplay(a, b, categoryOrder) ==
    LET catA == a.category
        catB == b.category
        indexA == arrayIndexOf(categoryOrder, catA)
        indexB == arrayIndexOf(categoryOrder, catB)
    IN  IF catA = catB THEN 0
        ELSE IF indexA # -1 /\ indexB # -1 THEN indexA - indexB
        ELSE IF indexA # -1 THEN -1
        ELSE IF indexB # -1 THEN 1
        ELSE localeCompare(catA, catB)

\* compareFiltered without the two branches for a category outside categoryOrder
compareFilteredNoOutside(a, b, categoryOrder) ==
    LET catA == a.category
        catB == b.category
        indexA == arrayIndexOf(categoryOrder, catA)
        indexB == arrayIndexOf(categoryOrder, catB)
    IN  IF catA = catB THEN 0
        ELSE IF indexA # -1 /\ indexB # -1 THEN indexA - indexB
        ELSE localeCompare(catA, catB)

\* the comparator of the "All" view sort
compareFiltered(a, b, categoryOrder) ==
    LET catA == a.category
        catB == b.category
        indexA == arrayIndexOf(categoryOrder, catA)
        indexB == arrayIndexOf(categoryOrder, catB)
    IN  IF catA = catB THEN 0
        ELSE IF indexA # -1 /\ indexB # -1 THEN indexA - indexB
        ELSE IF indexA # -1 THEN -1
        ELSE IF indexB # -1 THEN 1
        ELSE localeCompare(catA, catB)

\* the comparator handed to sort: of the display-ID sort or of the "All" view sort
compareBy(which, a, b, categoryOrder) ==
    IF which = "display" THEN compareDisplay(a, b, categoryOrder)
    ELSE compareFiltered(a, b, categoryOrder)

RECURSIVE insertWith(_, _, _, _)
insertWith(sorted, x, categoryOrder, which) ==
    IF sorted = <<>> THEN <<x>>
    ELSE LET last == sorted[Len(sorted)]
         IN  IF compareBy(which, last, x, categoryOrder) > 0
             THEN Append(insertWith(SubSeq(sorted, 1, Len(sorted) - 1), x, categoryOrder, which), last)
             ELSE Append(sorted, x)

\* arr.sort((a, b) => ...)
RECURSIVE sortWith(_, _, _)
sortWith(arr, categoryOrder, which) ==
    IF arr = <<>> THEN <<>>
    ELSE insertWith(sortWith(SubSeq(arr, 1, Len(arr) - 1), categoryOrder, which),
                    arr[Len(arr)], categoryOrder, which)

----------------------------------------------------------------------------
(* The memoized values of App *)

\* q => ({...q, category: q.category || 'Other'})
normalize(q) == [q EXCEPT !.category = IF q.category # <<>> THEN q.category ELSE Other]

normalizeAll(qs) == [i \in 1..Len(qs) |-> normalize(qs[i])]

\* [...new Set(arr)]: the distinct elements in order of first occurrence
RECURSIVE uniq(_)
uniq(arr) ==
    IF arr = <<>> THEN <<>>
    ELSE LET front == uniq(SubSeq(arr, 1, Len(arr) - 1))
             last == arr[Len(arr)]
         IN  IF arrayIncludes(front, last) THEN front ELSE Append(front, last)

\* const categories = useMemo(...)
computeCategories(data) ==
    LET cats == uniq([i \in 1..Len(data.questions) |-> normalize(data.questions[i]).category])
    IN  IF data.declared
        THEN LET ordered == SelectSeq(data.categoryOrder, LAMBDA c : arrayIncludes(cats, c))
                 others == sortDefault(SelectSeq(cats, LAMBDA c : ~arrayIncludes(data.categoryOrder, c)))
             IN  <<All>> \o ordered \o others
        ELSE <<All>> \o sortDefault(cats)

\* computeDisplayIdMap with map[q.id] = index in place of index + 1
computeDisplayIdMapZeroBased(data) ==
    LET all == IF data.declared
               THEN sortWith(normalizeAll(data.questions), data.categoryOrder, "display")
               ELSE normalizeAll(data.questions)
        ids == {all[i].id : i \in 1..Len(all)}
        lastIndex(id) == CHOOSE i \in 1..Len(all) :
                            /\ all[i].id = id
                            /\ \A j \in 1..Len(all) : all[j].id = id => j <= i
    IN  [id \in ids |-> lastIndex(id) - 1]

\* const displayIdMap = useMemo(...): a later question with the same id
\* overwrites the entry of an earlier one
computeDisplayIdMap(data) ==
    LET all == IF data.declared
               THEN sortWith(normalizeAll(data.questions), data.categoryOrder, "display")
               ELSE normalizeAll(data.questions)
        ids == {all[i].id : i \in 1..Len(all)}
        lastIndex(id) == CHOOSE i \in 1..Len(all) :
                            /\ all[i].id = id
                            /\ \A j \in 1..Len(all) : all[j].id = id => j <= i
    IN  [id \in ids |-> lastIndex(id)]

\* matchesFilter with the search term compared as typed
matchesFilterTermAsTyped(q, term, cat) ==
    LET matchesSearch == \/ includes(toLowerCase(q.question), term)
                         \/ (q.code # <<>> /\ includes(toLowerCase(q.code), term))
        matchesCategory == cat = All \/ q.category = cat
    IN  matchesSearch /\ matchesCategory

\* the predicate of the filter in filteredQuestions
matchesFilter(q, term, cat) ==
    LET matchesSearch == \/ includes(toLowerCase(q.question), toLowerCase(term))
                         \/ (q.code # <<>> /\ includes(toLowerCase(q.code), toLowerCase(term)))
        matchesCategory == cat = All \/ q.category = cat
    IN  matchesSearch /\ matchesCategory

\* const filteredQuestions = useMemo(...)
computeFiltered(data, term, cat) ==
    LET result == SelectSeq(normalizeAll(data.questions), LAMBDA q : matchesFilter(q, term, cat))
    IN  IF cat = All /\ data.declared
        THEN sortWith(result, data.categoryOrder, "filtered")
        ELSE result

\* const displayId = displayIdMap[question.id] || question.id
displayId(map, q) ==
    IF q.id \in DOMAIN map /\ map[q.id] # 0 THEN map[q.id] ELSE q.id

\* categoryCount comparing the category as stored, not normalized
categoryCountRaw(data, cat) ==
    Cardinality({i \in 1..Len(data.questions) : data.questions[i].category = cat})

\* the count shown on the button of category cat
categoryCount(data, cat) ==
    Cardinality({i \in 1..Len(data.questions) :
                    (IF data.questions[i].category # <<>>
                     THEN data.questions[i].category ELSE Other) = cat})

\* Object.keys(revealedAnswers).length
revealedCount(revealed) == Cardinality(DOMAIN revealed)

\* questions.questions.length, the total shown next to the revealed count
totalCount(data, filtered) == Len(data.questions)

\* Math.round((revealed / total) * 100) for total > 0: halves round up
progressPercentage(revealed, data, filtered) ==
    (200 * revealedCount(revealed) + totalCount(data, filtered)) \div (2 * totalCount(data, filtered))

----------------------------------------------------------------------------
(* JSON text of the revealed-answers object *)

\* the decimal digits of a non-negative integer
RECURSIVE digits(_)
digits(n) == IF n < 10 THEN <<48 + n>> ELSE Append(digits(n \div 10), 48 + (n % 10))

Min(S) == CHOOSE x \in S : \A y \in S : x <= y

\* the members "key":value of the object, integer keys in ascending order
RECURSIVE stringifyMembers(_, _)
stringifyMembers(obj, keys) ==
    IF keys = {} THEN <<>>
    ELSE LET k == Min(keys)
             rest == keys \ {k}
         IN  <<34>> \o digits(k) \o <<34, 58>> \o digits(obj[k])
                 \o (IF rest = {} THEN <<>> ELSE <<44>> \o stringifyMembers(obj, rest))

\* JSON.stringify(revealedAnswers)
JSONstringify(obj) == <<123>> \o stringifyMembers(obj, DOMAIN obj) \o <<125>>

RECURSIVE countDigits(_)
countDigits(s) ==
    IF s # <<>> /\ Head(s) \in 48..57 THEN 1 + countDigits(Tail(s)) ELSE 0

RECURSIVE toNumber(_)
toNumber(ds) ==
    IF ds = <<>> THEN 0
    ELSE 10 * toNumber(SubSeq(ds, 1, Len(ds) - 1)) + (ds[Len(ds)] - 48)

SyntaxError == [ok |-> FALSE, value |-> <<>>]

\* the members of an object after '{' or ',': "digits":digits, then ',' or a final '}'
RECURSIVE parseMembers(_, _)
parseMembers(s, acc) ==
    IF s = <<>> \/ Head(s) # 34 THEN SyntaxError
    ELSE LET nk == countDigits(Tail(s))
             afterKey == SubSeq(s, nk + 2, Len(s))
         IN  IF nk = 0 \/ Len(afterKey) < 2 \/ afterKey[1] # 34 \/ afterKey[2] # 58
             THEN SyntaxError
             ELSE LET key == toNumber(SubSeq(s, 2, nk + 1))
                      valText == SubSeq(afterKey, 3, Len(afterKey))
                      nv == countDigits(valText)
                      val == toNumber(SubSeq(valText, 1, nv))
                      rest == SubSeq(valText, nv + 1, Len(valText))
                      next == [k \in DOMAIN acc \cup {key} |-> IF k = key THEN val ELSE acc[k]]
                  IN  IF nv = 0 \/ rest = <<>> THEN SyntaxError
                      ELSE IF Head(rest) = 125
                           THEN IF Len(rest) = 1 THEN [ok |-> TRUE, value |-> next]
                                ELSE SyntaxError
                      ELSE IF Head(rest) = 44 THEN parseMembers(Tail(rest), next)
                      ELSE SyntaxError

\* JSON.parse(saved) on the texts of an object of non-negative integers;
\* ok = FALSE stands for the SyntaxError it throws
JSONparse(s) ==
    IF Len(s) < 2 \/ s[1] # 123 THEN SyntaxError
    ELSE IF s[2] = 125 THEN (IF Len(s) = 2 THEN [ok |-> TRUE, value |-> <<>>] ELSE SyntaxError)
    ELSE parseMembers(Tail(s), <<>>)

\* localStorage: getItem gives null for a missing key
NoItem == [exists |-> FALSE, value |-> <<>>]
Item(text) == [exists |-> TRUE, value |-> text]

\* the initializer of useState: saved ? JSON.parse(saved) : {}
initialRevealed(slot) ==
    IF slot.exists /\ slot.value # <<>> THEN JSONparse(slot.value)
    ELSE [ok |-> TRUE, value |-> <<>>]

----------------------------------------------------------------------------
(* Datasets: the static questions.json a session runs over *)

Question(id, category, question, code, options) ==
    [id |-> id, category |-> category, question |-> question, code |-> code,
     options |-> options]

Dataset(qs, declared, categoryOrder) ==
    [questions |-> qs, declared |-> declared, categoryOrder |-> categoryOrder]

\* categoryOrder is optional: declared tells whether the dataset has the field
Undeclared == [declared |-> FALSE, categoryOrder |-> <<>>]
Declared(order) == [declared |-> TRUE, categoryOrder |-> order]

\* ids in dataset order: ascending from 1, or descending with two digits
IdLayouts == {"asc", "desc"}
idAt(layout, i, n) == IF layout = "asc" THEN i ELSE 10 * (n + 1 - i) + 2

\* the texts "a", "b", "c", ... by position and the option lists
textAt(i) == <<96 + i>>
optionsAt(i) == IF i = 1 THEN << <<120>>, <<121>> >> ELSE << <<120>> >>

SeqsUpTo(S, n) == UNION {[1..k -> S] : k \in 0..n}

\* the datasets of the session life cycle
LifecycleCategories == {<<>>, Sync}
LifecycleOrders == {Undeclared, Declared(<<>>), Declared(<<Sync>>), Declared(<<Other, Sync>>)}

LifecycleDatasets ==
    UNION {{Dataset([i \in 1..n |-> Question(idAt(layout, i, n), cats[i], textAt(i), <<>>, optionsAt(i))],
                    o.declared, o.categoryOrder) :
                cats \in [1..n -> LifecycleCategories], o \in LifecycleOrders, layout \in IdLayouts} :
           n \in 1..MaxQuestions}

LifecycleTerms == {<<>>, <<97>>, <<66>>}

idsOf(data) == {data.questions[i].id : i \in 1..Len(data.questions)}
questionOf(data, id) == data.questions[CHOOSE i \in 1..Len(data.questions) : data.questions[i].id = id]

\* the reveal states a session over the dataset can have left in the slot
RevealStates(data) ==
    UNION {{f \in [ids -> 0..3] : \A id \in ids : f[id] < Len(questionOf(data, id).options)} :
           ids \in SUBSET idsOf(data)}

\* texts that JSON.parse rejects
CorruptTexts == {<<123>>, <<123, 34, 49, 34, 58>>, <<110, 111>>}

InitialSlots(data) ==
    {NoItem, Item(<<>>)} \cup {Item(JSONstringify(f)) : f \in RevealStates(data)}
        \cup {Item(t) : t \in CorruptTexts}

----------------------------------------------------------------------------
(* The session *)

\* op: the handler; id, index: its arguments; before: the number of revealed
\* answers when it was called
NoEvent == [op |-> "none", id |-> 0, index |-> 0, before |-> 0]
Event(op, id, index, before) == [op |-> op, id |-> id, index |-> index, before |-> before]

Mounted == pc \in {"effect", "idle"}

Unmounted(data, slot) ==
    /\ questions = data
    /\ storage = slot
    /\ searchTerm = <<>>
    /\ selectedCategory = All
    /\ revealedAnswers = <<>>
    /\ categories = <<>>
    /\ displayIdMap = <<>>
    /\ filteredQuestions = <<>>
    /\ pc = "unmounted"
    /\ event = NoEvent

Init == \E data \in LifecycleDatasets : \E slot \in InitialSlots(data) : Unmounted(data, slot)

\* the first render of App: the state initializers and the memoized values.
\* A throw of the initializer leaves nothing rendered.
Mount ==
    /\ pc = "unmounted"
    /\ LET saved == initialRevealed(storage)
       IN  IF saved.ok
           THEN /\ revealedAnswers' = saved.value
                /\ searchTerm' = <<>>
                /\ selectedCategory' = All
                /\ categories' = computeCategories(questions)
                /\ displayIdMap' = computeDisplayIdMap(questions)
                /\ filteredQuestions' = computeFiltered(questions, <<>>, All)
                /\ pc' = "effect"
           ELSE /\ pc' = "crashed"
                /\ UNCHANGED <<revealedAnswers, searchTerm, selectedCategory, categories,
                               displayIdMap, filteredQuestions>>
    /\ event' = Event("mount", 0, 0, 0)
    /\ UNCHANGED <<questions, storage>>

\* SaveEffect with an empty dependency list: it saves after the mount only
SaveEffectOnMountOnly ==
    /\ pc = "effect"
    /\ storage' = IF event.op = "mount" THEN Item(JSONstringify(revealedAnswers)) ELSE storage
    /\ pc' = "idle"
    /\ UNCHANGED <<questions, searchTerm, selectedCategory, revealedAnswers, categories,
                   displayIdMap, filteredQuestions, event>>

\* useEffect(() => localStorage.setItem(..), [revealedAnswers]): runs after the
\* render that follows the mount or a change of revealedAnswers
SaveEffect ==
    /\ pc = "effect"
    /\ storage' = Item(JSONstringify(revealedAnswers))
    /\ pc' = "idle"
    /\ UNCHANGED <<questions, searchTerm, selectedCategory, revealedAnswers, categories,
                   displayIdMap, filteredQuestions, event>>

\* onChange of the search input, and the clear button
SetSearchTerm(term) ==
    /\ pc = "idle"
    /\ searchTerm' = term
    /\ filteredQuestions' = computeFiltered(questions, term, selectedCategory)
    /\ event' = Event("setSearchTerm", 0, 0, revealedCount(revealedAnswers))
    /\ UNCHANGED <<questions, selectedCategory, revealedAnswers, storage, categories,
                   displayIdMap, pc>>

\* onClick of the category button at position i of the category list
SetSelectedCategory(i) ==
    /\ pc = "idle"
    /\ i \in 1..Len(categories)
    /\ selectedCategory' = categories[i]
    /\ filteredQuestions' = computeFiltered(questions, searchTerm, categories[i])
    /\ event' = Event("setSelectedCategory", 0, 0, revealedCount(revealedAnswers))
    /\ UNCHANGED <<questions, searchTerm, revealedAnswers, storage, categories,
                   displayIdMap, pc>>

\* withAnswer without the spread of prev
withAnswerOnly(prev, questionId, answerIndex) ==
    [k \in {questionId} |-> answerIndex]

\* prev => ({...prev, [questionId]: answerIndex})
withAnswer(prev, questionId, answerIndex) ==
    [k \in DOMAIN prev \cup {questionId} |-> IF k = questionId THEN answerIndex ELSE prev[k]]

\* withoutAnswer deleting from an empty copy: newState = {}
withoutAnswerEmptyCopy(prev, questionId) ==
    [k \in {} |-> 0]

\* prev => { const newState = {...prev}; delete newState[questionId]; return newState }
withoutAnswer(prev, questionId) ==
    [k \in DOMAIN prev \ {questionId} |-> prev[k]]

\* const isRevealed = revealedAnswers[question.id] !== undefined
isRevealed(revealed, q) == q.id \in DOMAIN revealed

handleAnswerClick(questionId, answerIndex) ==
    /\ pc = "idle"
    /\ revealedAnswers' = withAnswer(revealedAnswers, questionId, answerIndex)
    /\ pc' = "effect"
    /\ event' = Event("handleAnswerClick", questionId, answerIndex, revealedCount(revealedAnswers))
    /\ UNCHANGED <<questions, searchTerm, selectedCategory, storage, categories,
                   displayIdMap, filteredQuestions>>

resetRevealed(questionId) ==
    /\ pc = "idle"
    /\ revealedAnswers' = withoutAnswer(revealedAnswers, questionId)
    /\ pc' = "effect"
    /\ event' = Event("resetRevealed", questionId, 0, revealedCount(revealedAnswers))
    /\ UNCHANGED <<questions, searchTerm, selectedCategory, storage, categories,
                   displayIdMap, filteredQuestions>>

\* OptionClick without the !isRevealed test and the disabled attribute
OptionClickUngated(i, index) ==
    /\ i \in 1..Len(filteredQuestions)
    /\ index \in 0..(Len(filteredQuestions[i].options) - 1)
    /\ handleAnswerClick(filteredQuestions[i].id, index)

\* OptionClick passing the letter position of the option, counted from 1
OptionClickOneBased(i, index) ==
    /\ i \in 1..Len(filteredQuestions)
    /\ index \in 0..(Len(filteredQuestions[i].options) - 1)
    /\ ~isRevealed(revealedAnswers, filteredQuestions[i])
    /\ handleAnswerClick(filteredQuestions[i].id, index + 1)

\* onClick of option index of the i-th visible question: !isRevealed && handleAnswerClick(..)
OptionClick(i, index) ==
    /\ i \in 1..Len(filteredQuestions)
    /\ index \in 0..(Len(filteredQuestions[i].options) - 1)
    /\ ~isRevealed(revealedAnswers, filteredQuestions[i])
    /\ handleAnswerClick(filteredQuestions[i].id, index)

\* onClick of the Reset button, rendered only for a revealed question
ResetClick(i) ==
    /\ i \in 1..Len(filteredQuestions)
    /\ isRevealed(revealedAnswers, filteredQuestions[i])
    /\ resetRevealed(filteredQuestions[i].id)

\* resetAllProgress without setRevealedAnswers({}): only the slot is removed
resetAllProgressSlotOnly(confirmed) ==
    /\ pc = "idle"
    /\ IF confirmed
       THEN /\ storage' = NoItem
            /\ UNCHANGED <<revealedAnswers, pc>>
       ELSE UNCHANGED <<revealedAnswers, storage, pc>>
    /\ event' = Event(IF confirmed THEN "resetAllProgress" ELSE "resetAllCancelled", 0, 0,
                    revealedCount(revealedAnswers))
    /\ UNCHANGED <<questions, searchTerm, selectedCategory, categories, displayIdMap,
                   filteredQuestions>>

\* resetAllProgress with the answer given to window.confirm
resetAllProgress(confirmed) ==
    /\ pc = "idle"
    /\ IF confirmed
       THEN /\ revealedAnswers' = <<>>
            /\ storage' = NoItem
            /\ pc' = "effect"
       ELSE UNCHANGED <<revealedAnswers, storage, pc>>
    /\ event' = Event(IF confirmed THEN "resetAllProgress" ELSE "resetAllCancelled", 0, 0,
                    revealedCount(revealedAnswers))
    /\ UNCHANGED <<questions, searchTerm, selectedCategory, categories, displayIdMap,
                   filteredQuestions>>

\* the page is reloaded: the component state is gone, localStorage stays
Reload ==
    /\ pc = "idle"
    /\ searchTerm' = <<>>
    /\ selectedCategory' = All
    /\ revealedAnswers' = <<>>
    /\ categories' = <<>>
    /\ displayIdMap' = <<>>
    /\ filteredQuestions' = <<>>
    /\ pc' = "unmounted"
    /\ event' = Event("reload", 0, 0, 0)
    /\ UNCHANGED <<questions, storage>>

Search == \E term \in LifecycleTerms : SetSearchTerm(term)
SelectCategory == \E i \in 1..Len(categories) : SetSelectedCategory(i)
ClickOption ==
    \E i \in 1..Len(filteredQuestions) :
        \E index \in 0..(Len(filteredQuestions[i].options) - 1) : OptionClick(i, index)
ClickReset == \E i \in 1..Len(filteredQuestions) : ResetClick(i)
ClickResetAll == \E confirmed \in BOOLEAN : resetAllProgress(confirmed)

Next ==
    \/ Mount
    \/ SaveEffect
    \/ Search
    \/ SelectCategory
    \/ ClickOption
    \/ ClickReset
    \/ ClickResetAll
    \/ Reload

Spec == Init /\ [][Next]_vars

----------------------------------------------------------------------------
(* The store operations called directly, whatever the interface shows *)

StoreReveal ==
    \E id \in idsOf(questions) :
        \E index \in 0..(Len(questionOf(questions, id).options) - 1) : handleAnswerClick(id, index)

StoreUnreveal == \E id \in idsOf(questions) : resetRevealed(id)

NextStore ==
    \/ Mount
    \/ SaveEffect
    \/ Search
    \/ SelectCategory
    \/ StoreReveal
    \/ StoreUnreveal
    \/ ClickResetAll

SpecStore == Init /\ [][NextStore]_vars

----------------------------------------------------------------------------
(* Category order: datasets with many categories and category orders *)

OrderCategories == {<<>>, Sync, SQL, jQuery}
OrderEntries == {Sync, jQuery, Other}
OrderOrders == {Undeclared} \cup {Declared(o) : o \in SeqsUpTo(OrderEntries, MaxOrderLen)}

\* a code sample on the questions at odd positions
codeAt(i) == IF i % 2 = 1 THEN <<122>> ELSE <<>>

OrderDatasets ==
    UNION {{Dataset([i \in 1..n |-> Question(idAt("asc", i, n), cats[i], textAt(i), codeAt(i), optionsAt(i))],
                    o.declared, o.categoryOrder) :
                cats \in [1..n -> OrderCategories], o \in OrderOrders} :
           n \in 0..MaxViewQuestions}

OrderTerms == {<<>>, <<90>>, <<98>>}

InitOrder == \E data \in OrderDatasets : Unmounted(data, NoItem)

SearchOrder == \E term \in OrderTerms : SetSearchTerm(term)

NextOrder ==
    \/ Mount
    \/ SaveEffect
    \/ SearchOrder
    \/ SelectCategory

SpecOrder == InitOrder /\ [][NextOrder]_vars

----------------------------------------------------------------------------
(* Search: datasets with question and code texts in mixed case *)

QuestionTexts == {<<97, 66>>, <<99>>}          \* "aB", "c"
CodeTexts == {<<>>, <<66, 97>>, <<100>>}       \* none, "Ba", "d"
TextCategories == {<<>>, Sync}
TextOrders == {Undeclared, Declared(<<Sync>>)}

TextDatasets ==
    UNION {{Dataset([i \in 1..n |-> Question(idAt("asc", i, n), cats[i], texts[i], codes[i], optionsAt(i))],
                    o.declared, o.categoryOrder) :
                cats \in [1..n -> TextCategories], texts \in [1..n -> QuestionTexts],
                codes \in [1..n -> CodeTexts], o \in TextOrders} :
           n \in 1..MaxTextQuestions}

\* "", "A", "AB", "ba", "D", "aa", and texts found only in an option ("x"),
\* a category name ("S", "Other") or an id ("1")
TextTerms == {<<>>, <<65>>, <<65, 66>>, <<98, 97>>, <<68>>, <<97, 97>>,
              <<120>>, <<83>>, Other, <<49>>}

InitText == \E data \in TextDatasets : Unmounted(data, NoItem)

SearchText == \E term \in TextTerms : SetSearchTerm(term)

NextText ==
    \/ Mount
    \/ SaveEffect
    \/ SearchText
    \/ SelectCategory

SpecText == InitText /\ [][NextText]_vars

----------------------------------------------------------------------------
(* Display IDs *)

DisplayIdBijection ==
    /\ DOMAIN displayIdMap = idsOf(questions)
    /\ {displayIdMap[id] : id \in DOMAIN displayIdMap} = 1..Len(questions.questions)
    /\ \A a, b \in DOMAIN displayIdMap : displayIdMap[a] = displayIdMap[b] => a = b
    /\ \A i \in 1..Len(filteredQuestions) :
          displayId(displayIdMap, filteredQuestions[i]) = displayIdMap[filteredQuestions[i].id]

\* C1: over a dataset with unique ids, with or without categoryOrder, the
\* display-ID map is a bijection from the question ids onto 1..N, the number
\* shown for a visible question is its entry of the map, and no search,
\* category selection, reveal, unreveal or resetAll changes the map.
C1_DisplayIdsBijectiveAndStable ==
    /\ [](Mounted => DisplayIdBijection)
    /\ [][(Mounted /\ Mounted') => displayIdMap' = displayIdMap]_vars

\* a session over three questions with a declared order whose numbering differs
\* from the ids, after an answer was revealed under a search term
C1_Witness ==
    /\ pc = "idle"
    /\ questions.declared
    /\ Len(questions.questions) = 3
    /\ \E id \in DOMAIN displayIdMap : displayIdMap[id] # id
    /\ searchTerm # <<>>
    /\ event.op = "handleAnswerClick"
    /\ Len(filteredQuestions) = 1

----------------------------------------------------------------------------
(* Persistence *)

\* C2: initialization never fails, whatever the slot holds: absent, a
\* serialized mapping, or text that cannot be parsed.
C2_InitializationNeverFails == pc # "crashed"

\* C3: once a confirmed resetAll has completed, with the save effect that
\* follows it, RevealState is empty and the slot holds no answers: a session
\* reloaded from it starts with 0 of N revealed.
C3_ResetAllEmptiesStateAndSlot ==
    (pc = "idle" /\ event.op = "resetAllProgress") =>
        /\ revealedAnswers = <<>>
        /\ storage \in {NoItem, Item(<<123, 125>>)}
        /\ initialRevealed(storage).ok
        /\ revealedCount(initialRevealed(storage).value) = 0

\* a confirmed resetAll completed from a state with revealed answers
C3_Witness ==
    /\ pc = "idle"
    /\ event.op = "resetAllProgress"
    /\ event.before > 0
    /\ storage.exists

\* a confirmed resetAll completed from an already empty state
C3_WitnessEmpty ==
    /\ pc = "idle"
    /\ event.op = "resetAllProgress"
    /\ event.before = 0

\* C4: when the save effect of the last action has run, the slot holds the
\* serialization of the whole RevealState, and initializing a session from
\* the slot gives the same ids and option indices, hence the same progress.
C4_PersistenceRoundTrip ==
    pc = "idle" =>
        /\ storage = Item(JSONstringify(revealedAnswers))
        /\ initialRevealed(storage).ok
        /\ initialRevealed(storage).value = revealedAnswers
        /\ progressPercentage(initialRevealed(storage).value, questions, filteredQuestions)
               = progressPercentage(revealedAnswers, questions, filteredQuestions)

\* two answers with two-digit ids are saved after an unreveal
C4_Witness ==
    /\ pc = "idle"
    /\ event.op = "resetRevealed"
    /\ revealedCount(revealedAnswers) = 2
    /\ \E id \in DOMAIN revealedAnswers : id > 9 /\ revealedAnswers[id] = 1
    /\ initialRevealed(storage).value = revealedAnswers

----------------------------------------------------------------------------
(* Filtering *)

\* two code units are the same letter up to case, or the same code unit
SameUpToCase(c, d) ==
    \/ c = d
    \/ IsUpper(c) /\ d = c + 32
    \/ IsLower(c) /\ d = c - 32

\* s occurs in t at some offset, letters compared without case
OccursIgnoringCase(s, t) ==
    \E k \in 0..(Len(t) - Len(s)) : \A i \in 1..Len(s) : SameUpToCase(s[i], t[k + i])

NormalizedCategory(q) == IF q.category = <<>> THEN Other ELSE q.category

ShouldBeVisible(q) ==
    /\ \/ searchTerm = <<>>
       \/ OccursIgnoringCase(searchTerm, q.question)
       \/ (q.code # <<>> /\ OccursIgnoringCase(searchTerm, q.code))
    /\ \/ selectedCategory = All
       \/ selectedCategory = NormalizedCategory(q)

IsVisible(q) == \E i \in 1..Len(filteredQuestions) : filteredQuestions[i].id = q.id

\* C5: a question is in the visible list iff the search term is empty or
\* occurs, ignoring case, in its question text or in its code sample, and the
\* selected category is "All" or its normalized category; nothing else of the
\* question (options, category name, id) makes it match the term.
C5_VisibleIffMatches ==
    Mounted =>
        /\ \A i \in 1..Len(questions.questions) :
              IsVisible(questions.questions[i]) <=> ShouldBeVisible(questions.questions[i])
        /\ Len(filteredQuestions) <= Len(questions.questions)

\* the term "ba" shows a question whose code is "Ba" and whose text is "aB",
\* and hides the other question
C5_Witness ==
    /\ Mounted
    /\ searchTerm = <<98, 97>>
    /\ Len(questions.questions) = 2
    /\ Len(filteredQuestions) = 1
    /\ filteredQuestions[1].question = <<97, 66>>
    /\ filteredQuestions[1].code = <<66, 97>>

\* the term "x", the text of an option of every question, shows nothing
C5_WitnessOptionText ==
    /\ Mounted
    /\ searchTerm = <<120>>
    /\ filteredQuestions = <<>>

VisibleDisplayIds == [i \in 1..Len(filteredQuestions) |-> displayId(displayIdMap, filteredQuestions[i])]

\* C6: the display IDs of the visible questions are strictly increasing from
\* top to bottom for every search term and category; with "All" and no search
\* term the list is all N questions numbered 1..N in order, which is the
\* dataset order when no categoryOrder is declared.
C6_VisibleListInDisplayOrder ==
    Mounted =>
        /\ \A i, j \in 1..Len(filteredQuestions) :
              i < j => VisibleDisplayIds[i] < VisibleDisplayIds[j]
        /\ (selectedCategory = All /\ searchTerm = <<>>) =>
              /\ Len(filteredQuestions) = Len(questions.questions)
              /\ \A i \in 1..Len(filteredQuestions) : VisibleDisplayIds[i] = i
              /\ ~questions.declared =>
                    \A i \in 1..Len(filteredQuestions) :
                        filteredQuestions[i].id = questions.questions[i].id

\* a search under "All" keeps two questions that the declared order swaps
C6_Witness ==
    /\ Mounted
    /\ questions.declared
    /\ selectedCategory = All
    /\ searchTerm = <<90>>
    /\ Len(filteredQuestions) = 2
    /\ filteredQuestions[1].id > filteredQuestions[2].id
    /\ arrayIndexOf(questions.categoryOrder, filteredQuestions[1].category) = -1
    /\ arrayIndexOf(questions.categoryOrder, filteredQuestions[2].category) = -1

----------------------------------------------------------------------------
(* Categories *)

DatasetCategories == {NormalizedCategory(questions.questions[i]) : i \in 1..Len(questions.questions)}

IsLocaleSorted(seq) == \A i, j \in 1..Len(seq) : i < j => localeCompare(seq[i], seq[j]) < 0

ElementsOf(seq) == {seq[i] : i \in 1..Len(seq)}

\* the list the Category Resolver is said to return
IsResolvedList(list) ==
    /\ Len(list) >= 1
    /\ list[1] = All
    /\ LET rest == SubSeq(list, 2, Len(list))
       IN  IF questions.declared
           THEN LET ordered == SelectSeq(questions.categoryOrder, LAMBDA c : c \in DatasetCategories)
                    others == SubSeq(rest, Len(ordered) + 1, Len(rest))
                IN  /\ Len(rest) >= Len(ordered)
                    /\ SubSeq(rest, 1, Len(ordered)) = ordered
                    /\ ElementsOf(others) = DatasetCategories \ ElementsOf(questions.categoryOrder)
                    /\ IsLocaleSorted(others)
           ELSE /\ ElementsOf(rest) = DatasetCategories
                /\ IsLocaleSorted(rest)

\* C7: the category list is "All", then the categoryOrder entries that occur
\* in the dataset in declared order, then the remaining normalized categories
\* sorted by locale-aware comparison; without categoryOrder, "All" and all
\* the distinct normalized categories so sorted; ["All"] for no questions.
C7_CategoryListResolved == Mounted => IsResolvedList(categories)

\* C8: with categoryOrder declared, p has a smaller display ID than q when
\* they share a category and p comes first in the dataset, or p's category is
\* in categoryOrder and q's is not, or both are and p's has the lower declared
\* index, or neither is and p's category is alphabetically before q's.
C8_DisplayIdsFollowCanonicalOrder ==
    (Mounted /\ questions.declared) =>
        \A i, j \in 1..Len(questions.questions) :
            LET p == questions.questions[i]
                q == questions.questions[j]
                cp == NormalizedCategory(p)
                cq == NormalizedCategory(q)
                ip == arrayIndexOf(questions.categoryOrder, cp)
                iq == arrayIndexOf(questions.categoryOrder, cq)
            IN  (\/ (cp = cq /\ i < j)
                 \/ (ip # -1 /\ iq = -1)
                 \/ (ip # -1 /\ iq # -1 /\ ip < iq)
                 \/ (ip = -1 /\ iq = -1 /\ localeCompare(cp, cq) < 0))
                => displayIdMap[p.id] < displayIdMap[q.id]

\* the scenario: ids 1 (Sync), 2 (no category), 3 (Sync) with categoryOrder ["Sync"]
C8_Witness ==
    /\ Mounted
    /\ questions.declared
    /\ questions.categoryOrder = <<Sync>>
    /\ [i \in 1..Len(questions.questions) |-> questions.questions[i].category] = <<Sync, <<>>, Sync>>
    /\ displayIdMap = [id \in {1, 2, 3} |-> IF id = 1 THEN 1 ELSE IF id = 3 THEN 2 ELSE 3]

\* C9: the count shown for a listed category other than "All" is the number
\* of questions of the whole dataset with that normalized category, whatever
\* the search term, the selected category and the reveal state, and it is the
\* length of the visible list when that category is selected with no search term.
C9_CategoryCountsOverFullDataset ==
    Mounted =>
        \A i \in 1..Len(categories) :
            categories[i] # All =>
                /\ categoryCount(questions, categories[i]) =
                      Cardinality({k \in 1..Len(questions.questions) :
                                      normalizeAll(questions.questions)[k].category = categories[i]})
                /\ (selectedCategory = categories[i] /\ searchTerm = <<>>) =>
                      Len(filteredQuestions) = categoryCount(questions, categories[i])

\* "Other" is selected with no search term and counts two of three questions,
\* one of them revealed
C9_Witness ==
    /\ pc = "idle"
    /\ selectedCategory = Other
    /\ searchTerm = <<>>
    /\ Len(questions.questions) = 3
    /\ categoryCount(questions, Other) = 2
    /\ revealedCount(revealedAnswers) = 1

\* a search term hides every question while the counts stay
C9_WitnessFiltered ==
    /\ pc = "idle"
    /\ searchTerm # <<>>
    /\ filteredQuestions = <<>>
    /\ selectedCategory = Sync
    /\ categoryCount(questions, Sync) = 2

----------------------------------------------------------------------------
(* The reveal-state store *)

\* a step of handleAnswerClick
RevealStep == pc = "idle" /\ pc' = "effect" /\ event'.op = "handleAnswerClick"

\* p is x / n * 100 rounded to the nearest integer, halves up
IsRoundedPercentage(p, x, n) == 2 * n * p - n <= 200 * x /\ 200 * x < 2 * n * p + n

\* C10: reveal(id, k) sets the entry of id to k and changes no other entry;
\* the revealed count grows by one when id was unrevealed and stays when it was
\* revealed; the total stays N whatever the search term and category, and the
\* percentage is round(revealedCount / N * 100).
C10_RevealSetsOneEntry ==
    [][RevealStep =>
        LET id == event'.id
            k == event'.index
            n == Len(questions.questions)
        IN  /\ DOMAIN revealedAnswers' = DOMAIN revealedAnswers \cup {id}
            /\ revealedAnswers'[id] = k
            /\ \A other \in DOMAIN revealedAnswers \ {id} :
                  revealedAnswers'[other] = revealedAnswers[other]
            /\ revealedCount(revealedAnswers') =
                  revealedCount(revealedAnswers) + (IF id \in DOMAIN revealedAnswers THEN 0 ELSE 1)
            /\ totalCount(questions', filteredQuestions') = n
            /\ IsRoundedPercentage(progressPercentage(revealedAnswers', questions', filteredQuestions'),
                                   revealedCount(revealedAnswers'), n)]_vars

\* an already revealed question is revealed again while a search term hides
\* some of the three questions: two of three stay revealed, 67 percent
C10_Witness ==
    /\ pc = "effect"
    /\ event.op = "handleAnswerClick"
    /\ event.before = revealedCount(revealedAnswers)
    /\ revealedAnswers[event.id] = event.index
    /\ revealedCount(revealedAnswers) = 2
    /\ Len(questions.questions) = 3
    /\ Len(filteredQuestions) < 3
    /\ progressPercentage(revealedAnswers, questions, filteredQuestions) = 67

\* a first reveal: one more answer is revealed than before the call
C10_WitnessFirstReveal ==
    /\ pc = "effect"
    /\ event.op = "handleAnswerClick"
    /\ event.before + 1 = revealedCount(revealedAnswers)
    /\ selectedCategory # All

\* a step of resetRevealed
UnrevealStep == pc = "idle" /\ pc' = "effect" /\ event'.op = "resetRevealed"

\* revealing an unrevealed question and unrevealing it gives back the state,
\* and with it the text saved in the slot
RevealThenUnrevealRestores ==
    \A id \in idsOf(questions) \ DOMAIN revealedAnswers :
        \A k \in 0..(Len(questionOf(questions, id).options) - 1) :
            LET back == withoutAnswer(withAnswer(revealedAnswers, id, k), id)
            IN  /\ back = revealedAnswers
                /\ JSONstringify(back) = JSONstringify(revealedAnswers)

\* C11: unreveal(id) removes exactly the entry of id: id is unanswered
\* afterwards, every other entry, the search term, the selected category and
\* the display IDs are unchanged; a reveal of an unrevealed id followed by its
\* unreveal restores the RevealState and the persisted mapping.
C11_UnrevealRemovesOneEntry ==
    /\ [][UnrevealStep =>
            LET id == event'.id
            IN  /\ DOMAIN revealedAnswers' = DOMAIN revealedAnswers \ {id}
                /\ \A other \in DOMAIN revealedAnswers \ {id} :
                      revealedAnswers'[other] = revealedAnswers[other]
                /\ searchTerm' = searchTerm
                /\ selectedCategory' = selectedCategory
                /\ displayIdMap' = displayIdMap
                /\ filteredQuestions' = filteredQuestions]_vars
    /\ [](Mounted => RevealThenUnrevealRestores)

\* an unreveal removed one of two entries under a search term, and the
\* remaining entry is what the slot holds after the save
C11_Witness ==
    /\ pc = "idle"
    /\ event.op = "resetRevealed"
    /\ event.before = 2
    /\ revealedCount(revealedAnswers) = 1
    /\ event.id \notin DOMAIN revealedAnswers
    /\ searchTerm # <<>>
    /\ storage = Item(JSONstringify(revealedAnswers))

----------------------------------------------------------------------------
(* The interface over the store *)

\* C12: through the interface a revealed answer is locked in: an option click
\* is handled only for an unrevealed question, the recorded index of a
\* question stays the same until its entry is removed, an entry is removed only
\* by the Reset of that question, a confirmed resetAll or the end of the
\* session, and Reset is handled only for a revealed question.
C12_RevealedAnswerLockedIn ==
    [][/\ RevealStep => event'.id \notin DOMAIN revealedAnswers
       /\ UnrevealStep => event'.id \in DOMAIN revealedAnswers
       /\ \A id \in DOMAIN revealedAnswers :
             IF id \in DOMAIN revealedAnswers'
             THEN revealedAnswers'[id] = revealedAnswers[id]
             ELSE \/ (event'.op = "resetRevealed" /\ event'.id = id)
                  \/ event'.op = "resetAllProgress"
                  \/ event'.op = "reload"]_vars

\* a second question is answered while the first answer, option B of a
\* question with two options, stays recorded
C12_Witness ==
    /\ pc = "effect"
    /\ event.op = "handleAnswerClick"
    /\ event.before = 1
    /\ revealedCount(revealedAnswers) = 2
    /\ \E id \in DOMAIN revealedAnswers :
          /\ id # event.id
          /\ revealedAnswers[id] = 1
          /\ Len(questionOf(questions, id).options) = 2

----------------------------------------------------------------------------
(* The category buttons *)

RECURSIVE SumOfCounts(_, _)
SumOfCounts(data, list) ==
    IF list = <<>> THEN 0
    ELSE (IF Head(list) = All THEN 0 ELSE categoryCount(data, Head(list)))
             + SumOfCounts(data, Tail(list))

\* C13: for every dataset and categoryOrder, repeated or absent entries
\* included, the category list has no duplicates and is "All" plus each
\* distinct normalized category of the dataset once, so the counts on the
\* buttons sum to N.
C13_CategoryListHasNoDuplicates ==
    Mounted =>
        /\ \A i, j \in 1..Len(categories) : categories[i] = categories[j] => i = j
        /\ ElementsOf(categories) = {All} \cup DatasetCategories
        /\ SumOfCounts(questions, categories) = Len(questions.questions)

----------------------------------------------------------------------------
(* Well-formed reveal state *)

====
